---------------------------- MODULE Spec2Model ----------------------------
(***************************************************************************)
(* Model of app/src/ui/index.tsx: the renderer bootstrap that wires the    *)
(* crash-report path (sendErrorWithContext), the uncaught-exception,       *)
(* non-fatal-exception and unhandled-rejection listeners, the app store    *)
(* subscription, the error handler registrations and the focus / blur /    *)
(* url-action lifecycle listeners.                                          *)
(*                                                                         *)
(* JavaScript values that may be null or undefined are records:            *)
(* Null is [js |-> "null"], Undefined is [js |-> "undefined"]; an array is *)
(* the record of its length property, the only property the file reads.    *)
(* lastEvent / calls hold the most recent listener run and the external    *)
(* calls (console, reporting sink, fatal signal, Dispatcher) it made, in   *)
(* order.                                                                  *)
(***************************************************************************)
EXTENDS Integers, Sequences, FiniteSets, TLC

VARIABLES
    dev,                        \* __DEV__
    testEnv,                    \* process.env.TEST_ENV is set
    darwin,                     \* __DARWIN__
    pc,                         \* position of the top-level script
    listeners,                  \* event listeners currently installed
    errorHandlers,              \* the Dispatcher's error handler chain
    appState,                   \* appStore.getState()
    published,                  \* history: the snapshot last passed to the
                                \* onDidUpdate listener
    dispatcher,                 \* the Dispatcher's own state (SpecDispatcher)
    lastSignal,                 \* history: the latest focus or blur signal
    currentState,               \* let currentState (line 92)
    lastUnhandledRejection,     \* line 93
    lastUnhandledRejectionTime, \* line 94
    now,                        \* the clock read by new Date()
    recentRejection,            \* history: the latest unhandledrejection event
    reportRuns,                 \* history: runs of sendErrorWithContext
    fatalSignals,               \* history: reportUncaughtException calls
    fatalReports,               \* history: sink calls not marked non-fatal
    lastEvent,                  \* the listener that ran most recently
    calls                       \* the external calls that run made, in order

vars == << dev, testEnv, darwin, pc, listeners, errorHandlers, appState,
           published, dispatcher, lastSignal, currentState,
           lastUnhandledRejection, lastUnhandledRejectionTime,
           now, recentRejection, reportRuns, fatalSignals, fatalReports,
           lastEvent, calls >>

----------------------------------------------------------------------------
(* Bounds *)

MaxTime == 1
MaxReports == 2
NumRepos == 2
MaxRefreshes == 2

----------------------------------------------------------------------------
(* JavaScript values *)

Null == [js |-> "null"]
Undefined == [js |-> "undefined"]

Digit == << "0", "1", "2", "3", "4", "5", "6", "7", "8", "9" >>

RECURSIVE NumStr(_)
\* `${n}` for a non-negative integer n
NumStr(n) == IF n < 10 THEN Digit[n + 1]
             ELSE NumStr(n \div 10) \o Digit[(n % 10) + 1]

\* `${b}` for a boolean b
BoolStr(b) == IF b THEN "true" ELSE "false"

\* Date.prototype.toString of the instant t
DateStr(t) == "Date " \o NumStr(t)


----------------------------------------------------------------------------
(* Application state snapshots (IAppState, the fields this file reads) *)

\* SelectionType
Repository == 0
CloningRepository == 1
MissingRepository == 2

\* RepositorySectionTab.History
History == 1

Repos == 1 .. NumRepos

\* the values of IAppState.selectedState, and undefined
Selections ==
    { Null, Undefined }
      \cup { [type |-> Repository, repository |-> r,
              state |-> [selectedSection |-> History]] : r \in Repos }
      \cup { [type |-> CloningRepository, repository |-> r] : r \in Repos }
      \cup { [type |-> MissingRepository, repository |-> r] : r \in Repos }

\* an array, as far as this file reads it: its length
Array(n) == [length |-> n]

\* the state of a freshly constructed store: nothing selected or shown
DefaultAppState ==
    [ currentBanner |-> Null,
      currentPopup |-> Null,
      selectedState |-> Null,
      currentFoldout |-> Null,
      showWelcomeFlow |-> FALSE,
      windowZoomFactor |-> 1,
      errors |-> Array(0),
      repositories |-> Array(0),
      windowState |-> "normal",
      accounts |-> Array(0),
      automaticallySwitchTheme |-> FALSE ]

\* the values each field of a snapshot takes in the model
FieldValues ==
    [ currentBanner |-> { Null, Undefined, [type |-> "successful-merge"] },
      currentPopup |-> { Null, [type |-> 7] },
      selectedState |-> Selections,
      currentFoldout |-> { Null, [type |-> 2] },
      showWelcomeFlow |-> BOOLEAN,
      windowZoomFactor |-> { 1, 2 },
      errors |-> { Array(0), Array(1), Undefined },
      repositories |-> { Array(0), Array(NumRepos), Undefined },
      windowState |-> { "normal", "minimized" },
      accounts |-> { Array(0), Array(1), Undefined },
      automaticallySwitchTheme |-> BOOLEAN ]

Fields == DOMAIN DefaultAppState

\* the snapshots a store publishes in Spec: one field away from the default
AppStates ==
    { [DefaultAppState EXCEPT ![f] = v] : <<f, v>> \in
        UNION { {f} \X FieldValues[f] : f \in Fields } }

\* the snapshots of SpecContext: every combination of the fields the report
\* reads, over fewer values of some
ContextStates ==
    [ currentBanner : FieldValues.currentBanner,
      currentPopup : FieldValues.currentPopup,
      selectedState :
          { Null, Undefined,
            [type |-> Repository, repository |-> 1,
             state |-> [selectedSection |-> History]],
            [type |-> CloningRepository, repository |-> 1] },
      currentFoldout : { Null },
      showWelcomeFlow : FieldValues.showWelcomeFlow,
      windowZoomFactor : FieldValues.windowZoomFactor,
      errors : FieldValues.errors,
      repositories : FieldValues.repositories,
      windowState : { "normal" },
      accounts : FieldValues.accounts,
      automaticallySwitchTheme : { TRUE } ]

----------------------------------------------------------------------------
(* Inputs of the listeners *)

\* an Error as thrown: its name and its stack, not yet source-mapped
Errors == { [name |-> "DiskFull", stack |-> "raw"] }

\* withSourceMappedStack (lib/source-map-support): the same error, its stack
\* rewritten to source positions
withSourceMappedStack(error) == [error EXCEPT !.stack = "mapped"]

\* getOS() and getGUID()
OsVersion == "Windows 10.0.19045"
Guid == "guid-0001"

EmptyContext == [k \in {} |-> ""]

\* the context argument of a send-non-fatal-exception event: absent, a key
\* of the caller's own, or a key that collides with one the report sets
Contexts ==
    { Undefined,
      [k \in {"kind"} |-> "lfs"],
      [k \in {"osVersion"} |-> "caller"],
      [k \in {"repositoryCount"} |-> "caller"] }

\* ev.reason of an unhandledrejection event
Reasons ==
    { Null, Undefined, [js |-> "Error", message |-> "boom"], [js |-> "symbol"] }

\* `${v}` throws a TypeError for a symbol
TemplateThrows(v) == v.js = "symbol"

\* `${v}` for the other values of ev.reason
Template(v) ==
    CASE v.js = "Error" -> "Error: " \o v.message
      [] OTHER -> v.js

\* the payload of a url-action message
URLActions == { [name |-> "oauth"], [name |-> "open-repository-from-url"],
                [name |-> "unknown"] }

\* the handlers the bootstrap registers, lines 269-281, in that order
BootHandlers ==
    << "defaultErrorHandler", "upstreamAlreadyExistsHandler",
       "externalEditorErrorHandler", "openShellErrorHandler",
       "mergeConflictHandler", "lfsAttributeMismatchHandler",
       "gitAuthenticationErrorHandler", "pushNeedsPullHandler",
       "backgroundTaskHandler", "missingRepositoryHandler",
       "localChangesOverwrittenHandler", "rebaseConflictsHandler",
       "refusedWorkflowUpdate" >>

----------------------------------------------------------------------------
(* sendErrorWithContext, lines 96-176 *)

\* extra.k = v
Set(extra, k, v) ==
    [x \in (DOMAIN extra) \cup {k} |-> IF x = k THEN v ELSE extra[x]]

\* the outcome of a statement of the try block: it completed, or it threw
\* after leaving extra as given
Ok(extra) == [ok |-> TRUE, extra |-> extra]
Thrown(extra) == [ok |-> FALSE, extra |-> extra]

\* each statement in a failure boundary of its own: the next one runs
\* whatever became of a
ThenContinues(a, next) == next

\* statement sequencing: next, the outcome of the statement that follows a,
\* counts only if a completed
Then(a, next) == IF a.ok THEN next ELSE a

\* { ...context, osVersion, guid }: the baseline written over the context
InitialExtraBaselineWins(context) ==
    LET ctx == IF context = Undefined THEN EmptyContext ELSE context
    IN  [k \in {"osVersion", "guid"} |->
           IF k = "osVersion" THEN OsVersion ELSE Guid] @@ ctx

\* lines 110-114: { osVersion, guid, ...context }; an absent context argument
\* takes the default {}
InitialExtra(context) ==
    LET ctx == IF context = Undefined THEN EmptyContext ELSE context
    IN  ctx @@ [k \in {"osVersion", "guid"} |->
                  IF k = "osVersion" THEN OsVersion ELSE Guid]

\* lines 118-120
ExtractBanner(extra, s) ==
    IF s.currentBanner # Null
    THEN IF s.currentBanner = Undefined THEN Thrown(extra)
         ELSE Ok(Set(extra, "currentBanner", s.currentBanner.type))
    ELSE Ok(extra)

\* lines 122-124
ExtractPopup(extra, s) ==
    IF s.currentPopup # Null
    THEN IF s.currentPopup = Undefined THEN Thrown(extra)
         ELSE Ok(Set(extra, "currentPopup", NumStr(s.currentPopup.type)))
    ELSE Ok(extra)

\* lines 126-134
ExtractSelection(extra, s) ==
    IF s.selectedState # Null
    THEN IF s.selectedState = Undefined THEN Thrown(extra)
         ELSE LET e1 == Set(extra, "selectedState",
                            NumStr(s.selectedState.type))
              IN  IF s.selectedState.type = Repository
                  THEN Ok(Set(e1, "selectedRepositorySection",
                              NumStr(s.selectedState.state.selectedSection)))
                  ELSE Ok(e1)
    ELSE Ok(extra)

\* lines 136-138
ExtractFoldout(extra, s) ==
    IF s.currentFoldout # Null
    THEN IF s.currentFoldout = Undefined THEN Thrown(extra)
         ELSE Ok(Set(extra, "currentFoldout", NumStr(s.currentFoldout.type)))
    ELSE Ok(extra)

\* lines 140-142
ExtractWelcomeFlow(extra, s) ==
    IF s.showWelcomeFlow THEN Ok(Set(extra, "inWelcomeFlow", "true"))
    ELSE Ok(extra)

\* the zoom factor recorded whatever its value
ExtractZoomAlways(extra, s) ==
    Ok(Set(extra, "windowZoomFactor", NumStr(s.windowZoomFactor)))

\* lines 144-146
ExtractZoom(extra, s) ==
    IF s.windowZoomFactor # 1
    THEN Ok(Set(extra, "windowZoomFactor", NumStr(s.windowZoomFactor)))
    ELSE Ok(extra)

\* lines 148-150
ExtractErrors(extra, s) ==
    IF s.errors = Undefined THEN Thrown(extra)
    ELSE IF s.errors.length > 0
         THEN Ok(Set(extra, "activeAppErrors", NumStr(s.errors.length)))
         ELSE Ok(extra)

\* lines 152-158
ExtractRejection(extra, rejection, rejectionTime) ==
    IF rejection # Null /\ rejectionTime # Null
    THEN Ok(Set(Set(extra, "lastUnhandledRejection", rejection.text),
                "lastUnhandledRejectionTime", DateStr(rejectionTime.time)))
    ELSE Ok(extra)

\* lines 160-162
ExtractCounts(extra, s) ==
    IF s.repositories = Undefined THEN Thrown(extra)
    ELSE LET e1 == Set(extra, "repositoryCount", NumStr(s.repositories.length))
             e2 == Set(e1, "windowState", s.windowState)
         IN  IF s.accounts = Undefined THEN Thrown(e2)
             ELSE Ok(Set(e2, "accounts", NumStr(s.accounts.length)))

\* the report without the macOS key
ExtractThemeNever(extra, s, isDarwin) == Ok(extra)

\* lines 164-168
ExtractTheme(extra, s, isDarwin) ==
    IF isDarwin
    THEN Ok(Set(extra, "automaticallySwitchTheme",
                BoolStr(s.automaticallySwitchTheme)))
    ELSE Ok(extra)

\* the rejection record added outside the if (currentState) block
TryBodyRejectionFirst(extra, env) ==
    LET s == env.currentState
        a0 == ExtractRejection(extra, env.lastUnhandledRejection,
                               env.lastUnhandledRejectionTime)
    IN  IF s # Null
        THEN Then(a0, ExtractCounts(a0.extra, s))
        ELSE a0

\* lines 117-169: the body of the try block
TryBody(extra, env) ==
    LET s == env.currentState
    IN  IF s # Null
        THEN
          LET a1 == ExtractBanner(extra, s)
              a2 == Then(a1, ExtractPopup(a1.extra, s))
              a3 == Then(a2, ExtractSelection(a2.extra, s))
              a4 == Then(a3, ExtractFoldout(a3.extra, s))
              a5 == Then(a4, ExtractWelcomeFlow(a4.extra, s))
              a6 == Then(a5, ExtractZoom(a5.extra, s))
              a7 == Then(a6, ExtractErrors(a6.extra, s))
              a8 == Then(a7, ExtractRejection(
                                 a7.extra, env.lastUnhandledRejection,
                                 env.lastUnhandledRejectionTime))
              a9 == Then(a8, ExtractCounts(a8.extra, s))
          IN  Then(a9, ExtractTheme(a9.extra, s, env.darwin))
        ELSE Ok(extra)

\* the try block without its catch: what was thrown propagates
CatchRethrows(a) == a

\* lines 116, 170-172: catch (err) { /* ignore */ }
Catch(a) == Ok(a.extra)

\* the guard without its TEST_ENV disjunct
SkipReportDevOnly(isDev, isTest) == isDev

\* line 105
SkipReport(isDev, isTest) == isDev \/ isTest

ConsoleError(message) == [op |-> "console.error", message |-> message]

SinkCall(error, extra, nonFatal) ==
    [op |-> "sendErrorReport", error |-> error, extra |-> extra,
     nonFatal |-> nonFatal]

\* lines 96-176: the calls the function makes, and whether it threw; env is
\* what it reads outside its arguments
sendErrorWithContext(error, context, nonFatal, env) ==
    LET mapped == withSourceMappedStack(error)
        log == << ConsoleError("Uncaught exception") >>
    IN  IF SkipReport(env.dev, env.testEnv)
        THEN [calls |-> Append(log, ConsoleError("not reported")),
              threw |-> FALSE]
        ELSE LET a == Catch(TryBody(InitialExtra(context), env))
             IN  IF a.ok
                 THEN [calls |-> Append(log, SinkCall(mapped, a.extra,
                                                      nonFatal)),
                       threw |-> FALSE]
                 ELSE [calls |-> log, threw |-> TRUE]

----------------------------------------------------------------------------
(* The Dispatcher (ui/dispatcher, not part of this file): its state as the
   design describes it, sections 4.1 and 5 *)

\* a Dispatcher just constructed: no focus state applied yet, no refresh
\* initiated; generation[r] counts the refreshes initiated for r, inflight is
\* the refreshes not yet completed, repositoryState[r] is the generation of
\* the refresh whose result r's derived state holds (0: none)
NewDispatcher ==
    [ appFocusState |-> "unset",
      accessKeyHighlightState |-> "unset",
      generation |-> [r \in Repos |-> 0],
      inflight |-> {},
      repositoryState |-> [r \in Repos |-> 0] ]

----------------------------------------------------------------------------
(* Initial state: the script has run up to line 94 *)

Init ==
    /\ dev \in BOOLEAN
    /\ testEnv \in BOOLEAN
    /\ darwin \in BOOLEAN
    /\ pc = "L178"
    /\ listeners = {}
    /\ errorHandlers = << >>
    /\ appState = DefaultAppState
    /\ published = Null
    /\ dispatcher = NewDispatcher
    /\ lastSignal = "none"
    /\ currentState = Null
    /\ lastUnhandledRejection = Null
    /\ lastUnhandledRejectionTime = Null
    /\ now = 0
    /\ recentRejection = Null
    /\ reportRuns = 0
    /\ fatalSignals = 0
    /\ fatalReports = 0
    /\ lastEvent = [name |-> "startup"]
    /\ calls = << >>

\* the build flags and module variables the report path reads
Env ==
    [ dev |-> dev, testEnv |-> testEnv, darwin |-> darwin,
      currentState |-> currentState,
      lastUnhandledRejection |-> lastUnhandledRejection,
      lastUnhandledRejectionTime |-> lastUnhandledRejectionTime ]

build == << dev, testEnv, darwin >>
rejectionVars == << lastUnhandledRejection, lastUnhandledRejectionTime, now,
                    recentRejection >>
reportVars == << reportRuns, fatalSignals, fatalReports >>
storeVars == << appState, currentState, published >>

----------------------------------------------------------------------------
(* The top-level script, lines 178-327 *)

\* Dispatcher.registerErrorHandler: appends to the chain, no de-duplication
registerErrorHandler(chain, handler) == Append(chain, handler)

\* the script installs a listener and moves on
Install(at, event, next) ==
    /\ pc = at
    /\ listeners' = listeners \cup {event}
    /\ pc' = next
    /\ UNCHANGED << build, errorHandlers, storeVars, rejectionVars,
                    reportVars, lastEvent, calls >>

\* lines 178-181: process.once('uncaughtException', ...)
InstallUncaughtException == Install("L178", "uncaughtException", "L184")

\* lines 184-189: process.on('send-non-fatal-exception', ...)
InstallNonFatalException ==
    Install("L184", "send-non-fatal-exception", "L205")

\* lines 205-214: window.addEventListener('unhandledrejection', ...)
InstallUnhandledRejection == Install("L205", "unhandledrejection", "L258")

\* lines 258-260: appStore.onDidUpdate(...)
SubscribeToStore == Install("L258", "did-update", "L269")

\* the script going on to line 285 after its first registration
RegisterOnlyDefaultHandler ==
    /\ pc = "L269"
    /\ errorHandlers' = registerErrorHandler(errorHandlers, BootHandlers[1])
    /\ pc' = "L285"
    /\ UNCHANGED << build, listeners, storeVars, rejectionVars, reportVars,
                    lastEvent, calls >>

\* lines 269-281: one registerErrorHandler call
RegisterNextErrorHandler ==
    /\ pc = "L269"
    /\ Len(errorHandlers) < Len(BootHandlers)
    /\ errorHandlers' = registerErrorHandler(
                            errorHandlers,
                            BootHandlers[Len(errorHandlers) + 1])
    /\ pc' = IF Len(errorHandlers') = Len(BootHandlers) THEN "L285"
             ELSE "L269"
    /\ UNCHANGED << build, listeners, storeVars, rejectionVars, reportVars,
                    lastEvent, calls >>

DispatcherCall(op, arg) ==
    CASE op = "setAppFocusState" -> [op |-> op, isFocused |-> arg]
      [] op = "setAccessKeyHighlightState" -> [op |-> op, isHighlighted |-> arg]
      [] op = "refreshRepository" -> [op |-> op, repository |-> arg]
      [] op = "dispatchURLAction" -> [op |-> op, action |-> arg]

\* line 285: dispatcher.setAppFocusState(remote.getCurrentWindow().isFocused())
InitialFocusState ==
    /\ pc = "L285"
    /\ \E isFocused \in BOOLEAN :
         calls' = Append(calls, DispatcherCall("setAppFocusState", isFocused))
    /\ pc' = "L287"
    /\ UNCHANGED << build, listeners, errorHandlers, storeVars, rejectionVars,
                    reportVars, lastEvent >>

\* lines 287-300
InstallFocus == Install("L287", "focus", "L302")

\* lines 302-308
InstallBlur == Install("L302", "blur", "L310")

\* lines 310-315
InstallUrlAction == Install("L310", "url-action", "L317")

\* lines 317-327: ReactDOM.render; the script ends and events are served
Render ==
    /\ pc = "L317"
    /\ pc' = "running"
    /\ UNCHANGED << build, listeners, errorHandlers, storeVars, rejectionVars,
                    reportVars, lastEvent, calls >>

----------------------------------------------------------------------------
(* The listeners *)

IsSinkCall(c) == c.op = "sendErrorReport"
IsFatalSignal(c) == c.op = "reportUncaughtException"
IsConsoleCall(c) == c.op = "console.error"
IsDispatcherCall(c) ==
    c.op \in { "setAppFocusState", "setAccessKeyHighlightState",
               "refreshRepository", "dispatchURLAction" }

\* a sink call that is not marked non-fatal
IsFatalReport(c) == IsSinkCall(c) /\ c.nonFatal # "true"

\* how many of the calls cs are fatal signals, reports not marked non-fatal,
\* sink calls, console calls, Dispatcher calls
FatalSignalCount(cs) == Len(SelectSeq(cs, IsFatalSignal))
FatalReportCount(cs) == Len(SelectSeq(cs, IsFatalReport))
SinkCallCount(cs) == Len(SelectSeq(cs, IsSinkCall))
ConsoleCallCount(cs) == Len(SelectSeq(cs, IsConsoleCall))
DispatcherCallCount(cs) == Len(SelectSeq(cs, IsDispatcherCall))

\* a listener ran: what it called is the latest run, and is counted
Ran(event, listenerCalls) ==
    /\ lastEvent' = event
    /\ calls' = listenerCalls
    /\ fatalSignals' = fatalSignals + FatalSignalCount(listenerCalls)
    /\ fatalReports' = fatalReports + FatalReportCount(listenerCalls)

\* the listener body with the report marked non-fatal
UncaughtExceptionListenerNonFatal(error, env) ==
    Append(sendErrorWithContext(error, Undefined, "true", env).calls,
           [op |-> "reportUncaughtException", error |-> error])

\* the listener body with its two statements exchanged
UncaughtExceptionListenerSignalsFirst(error, env) ==
    << [op |-> "reportUncaughtException", error |-> error] >>
      \o sendErrorWithContext(error, Undefined, "undefined", env).calls

\* lines 178-181: the listener body
UncaughtExceptionListener(error, env) ==
    LET r == sendErrorWithContext(error, Undefined, "undefined", env)
    IN  IF r.threw THEN r.calls
        ELSE Append(r.calls,
                    [op |-> "reportUncaughtException", error |-> error])

\* process.on in place of process.once: the listener stays
OnceKeeps(installed, event) == installed

\* process.once: the listener is removed when the event is first emitted
Once(installed, event) == installed \ {event}

\* an uncaught exception reaches the process: the listener runs if it is
\* still installed, and nothing of this file runs otherwise
UncaughtException(error) ==
    /\ pc = "running"
    /\ listeners' = Once(listeners, "uncaughtException")
    /\ IF "uncaughtException" \in listeners
       THEN /\ reportRuns < MaxReports
            /\ reportRuns' = reportRuns + 1
            /\ Ran([name |-> "uncaughtException", error |-> error,
                    context |-> Undefined, listening |-> TRUE],
                   UncaughtExceptionListener(error, Env))
       ELSE /\ reportRuns' = reportRuns
            /\ Ran([name |-> "uncaughtException", error |-> error,
                    context |-> Undefined, listening |-> FALSE], << >>)
    /\ UNCHANGED << build, pc, errorHandlers, storeVars, rejectionVars >>

\* the listener body without its third argument
NonFatalExceptionListenerUnmarked(error, context, env) ==
    sendErrorWithContext(error, context, "undefined", env).calls

\* lines 186-188: the listener body
NonFatalExceptionListener(error, context, env) ==
    sendErrorWithContext(error, context, "true", env).calls

\* lines 184-189: a send-non-fatal-exception event
NonFatalException(error, context) ==
    /\ pc = "running"
    /\ "send-non-fatal-exception" \in listeners
    /\ reportRuns < MaxReports
    /\ reportRuns' = reportRuns + 1
    /\ Ran([name |-> "send-non-fatal-exception", error |-> error,
            context |-> context],
           NonFatalExceptionListener(error, context, Env))
    /\ UNCHANGED << build, pc, listeners, errorHandlers, storeVars,
                    rejectionVars >>

\* line 206
HasReason(reason) == reason # Null /\ reason # Undefined

\* the listener body escalating the rejection as a crash
UnhandledRejectionListenerCrashes(reason, t, rejection, rejectionTime) ==
    [rejection |-> [text |-> "rejected"],
     rejectionTime |-> [time |-> t],
     calls |-> << [op |-> "reportUncaughtException", error |-> reason] >>]

\* lines 205-214: the listener body at the instant t: the record it leaves
\* and the calls it makes
UnhandledRejectionListener(reason, t, rejection, rejectionTime) ==
    IF HasReason(reason) /\ ~TemplateThrows(reason)
    THEN [rejection |-> [text |-> Template(reason)],
          rejectionTime |-> [time |-> t],
          calls |-> << >>]
    ELSE [rejection |-> rejection, rejectionTime |-> rejectionTime,
          calls |-> << >>]

\* an unhandledrejection event at the instant t
UnhandledRejection(reason, t) ==
    /\ pc = "running"
    /\ "unhandledrejection" \in listeners
    /\ now' = t
    /\ recentRejection' = [reason |-> reason, time |-> t]
    /\ LET r == UnhandledRejectionListener(reason, t, lastUnhandledRejection,
                                           lastUnhandledRejectionTime)
       IN  /\ lastUnhandledRejection' = r.rejection
           /\ lastUnhandledRejectionTime' = r.rejectionTime
           /\ Ran([name |-> "unhandledrejection"], r.calls)
    /\ UNCHANGED << build, pc, listeners, errorHandlers, storeVars,
                    reportRuns >>

\* a listener that does not keep the snapshot
DidUpdateListenerDrops(state) == Null

\* lines 258-260: the listener body
DidUpdateListener(state) == state

\* the store changes to s and notifies its subscribers
DidUpdate(s) ==
    /\ pc = "running"
    /\ appState' = s
    /\ published' = IF "did-update" \in listeners THEN s ELSE published
    /\ currentState' = IF "did-update" \in listeners
                       THEN DidUpdateListener(s) ELSE currentState
    /\ Ran([name |-> "did-update"], << >>)
    /\ UNCHANGED << build, pc, listeners, errorHandlers, rejectionVars,
                    reportRuns >>

\* the guard without its exclusion of cloning repositories
ShouldRefreshAnySelection(selectedState) ==
    /\ selectedState # Null
    /\ selectedState # Undefined

\* lines 292-295: selectedState && !(selectedState.type === CloningRepository)
ShouldRefresh(selectedState) ==
    /\ selectedState # Null
    /\ selectedState # Undefined
    /\ ~(selectedState.type = CloningRepository)

\* the focus state applied inside the if, with the refresh
FocusListenerOnlyWhenRefreshing(state) ==
    LET selectedState == state.selectedState
    IN  IF ShouldRefresh(selectedState)
        THEN << DispatcherCall("refreshRepository", selectedState.repository),
                DispatcherCall("setAppFocusState", TRUE) >>
        ELSE << >>

\* lines 287-300: the calls of the focus listener
FocusListener(state) ==
    LET selectedState == state.selectedState
    IN  (IF ShouldRefresh(selectedState)
         THEN << DispatcherCall("refreshRepository",
                                selectedState.repository) >>
         ELSE << >>)
          \o << DispatcherCall("setAppFocusState", TRUE) >>

\* the blur listener without the access-key reset
BlurListenerFocusOnly == << DispatcherCall("setAppFocusState", FALSE) >>

\* lines 302-308: the calls of the blur listener
BlurListener ==
    << DispatcherCall("setAccessKeyHighlightState", FALSE),
       DispatcherCall("setAppFocusState", FALSE) >>

\* lines 310-315: the calls of the url-action listener
UrlActionListener(action) == << DispatcherCall("dispatchURLAction", action) >>

\* an ipc message is served by its listener
Ipc(event, listenerCalls) ==
    /\ pc = "running"
    /\ event.name \in listeners
    /\ Ran(event, listenerCalls)
    /\ UNCHANGED << build, pc, listeners, errorHandlers, storeVars,
                    rejectionVars, reportRuns >>

Focus == Ipc([name |-> "focus"], FocusListener(appState))

Blur == Ipc([name |-> "blur"], BlurListener)

UrlAction(action) ==
    Ipc([name |-> "url-action", action |-> action], UrlActionListener(action))

----------------------------------------------------------------------------
(* The Dispatcher's operations (ui/dispatcher, not part of this file), as
   the design describes them, sections 4.1, 5 and 7 *)

\* "pure state transitions; apply unconditionally"
setAppFocusState(d, isFocused) ==
    [d EXCEPT !.appFocusState = BoolStr(isFocused)]

setAccessKeyHighlightState(d, isHighlighted) ==
    [d EXCEPT !.accessKeyHighlightState = BoolStr(isHighlighted)]

\* a refresh of r is initiated: it is tagged with r's next generation
refreshRepository(d, r) ==
    LET g == d.generation[r] + 1
    IN  [d EXCEPT !.generation[r] = g,
                  !.inflight = @ \cup {[repository |-> r, generation |-> g]}]

\* a completion applied whatever its generation
completeRefreshUntagged(d, refresh) ==
    [d EXCEPT !.inflight = @ \ {refresh},
              !.repositoryState[refresh.repository] = refresh.generation]

\* a refresh completes: its result is applied unless a later refresh of the
\* same repository has been initiated since ("ignore stale results")
completeRefresh(d, refresh) ==
    [d EXCEPT !.inflight = @ \ {refresh},
              !.repositoryState[refresh.repository] =
                  IF refresh.generation = d.generation[refresh.repository]
                  THEN refresh.generation ELSE @]

\* one call of a lifecycle listener, served by the Dispatcher
Dispatch(d, c) ==
    CASE c.op = "setAppFocusState" -> setAppFocusState(d, c.isFocused)
      [] c.op = "setAccessKeyHighlightState" ->
             setAccessKeyHighlightState(d, c.isHighlighted)
      [] c.op = "refreshRepository" -> refreshRepository(d, c.repository)
      [] OTHER -> d

RECURSIVE DispatchAll(_, _)
\* the calls cs served in order
DispatchAll(d, cs) ==
    IF cs = << >> THEN d
    ELSE DispatchAll(Dispatch(d, Head(cs)), Tail(cs))

RECURSIVE Initiated(_, _)
\* how many refreshes of the repositories rs have been initiated
Initiated(d, rs) ==
    IF rs = {} THEN 0
    ELSE LET r == CHOOSE x \in rs : TRUE
         IN  d.generation[r] + Initiated(d, rs \ {r})

\* the shapes of failure an operation raises: two that a specialized handler
\* targets, one that none does
ErrorShapes == { "push-rejected-needs-pull", "merge-conflict", "unexpected" }

\* the shape each handler claims; the terminal handler is "registered to
\* always match as a catch-all"
Recognizes(handler, shape) ==
    \/ handler = "defaultErrorHandler"
    \/ handler = "pushNeedsPullHandler" /\ shape = "push-rejected-needs-pull"
    \/ handler = "mergeConflictHandler" /\ shape = "merge-conflict"

\* what a handler does with an error it claims: a specialized handler
\* converts it into a state mutation, the terminal handler sends it to the
\* reporting sink; both return "fully handled"
Claim(handler) ==
    IF handler = "defaultErrorHandler"
    THEN [claimedBy |-> handler, mutations |-> << >>, sinkCalls |-> 1]
    ELSE [claimedBy |-> handler, mutations |-> << handler >>, sinkCalls |-> 0]

RECURSIVE RunChain(_, _)
\* dispatch, on a failure: the chain is tried in registration order, the
\* first handler that recognizes the error claims it, and an error no handler
\* claims goes to the sink as a fatal uncaught error
RunChain(chain, shape) ==
    IF chain = << >>
    THEN [claimedBy |-> "none", mutations |-> << >>, sinkCalls |-> 1]
    ELSE IF Recognizes(Head(chain), shape) THEN Claim(Head(chain))
         ELSE RunChain(Tail(chain), shape)

----------------------------------------------------------------------------
(* The program *)

Boot ==
    \/ InstallUncaughtException
    \/ InstallNonFatalException
    \/ InstallUnhandledRejection
    \/ SubscribeToStore
    \/ RegisterNextErrorHandler
    \/ InitialFocusState
    \/ InstallFocus
    \/ InstallBlur
    \/ InstallUrlAction
    \/ Render

ScriptNext ==
    \/ Boot
    \/ \E error \in Errors : UncaughtException(error)
    \/ \E error \in Errors, context \in Contexts :
         NonFatalException(error, context)
    \/ \E reason \in Reasons, t \in now .. MaxTime :
         UnhandledRejection(reason, t)
    \/ \E s \in AppStates : DidUpdate(s)
    \/ Focus
    \/ Blur
    \/ \E action \in URLActions : UrlAction(action)

\* this file alone: what it asks of the Dispatcher is recorded in calls,
\* the Dispatcher itself does not run
Next == ScriptNext /\ UNCHANGED << dispatcher, lastSignal >>

Spec == Init /\ [][Next]_vars

----------------------------------------------------------------------------
(* The lifecycle listeners of this file together with the Dispatcher *)

\* the snapshots the store publishes in SpecDispatcher: the selections
DispatcherStates ==
    { [DefaultAppState EXCEPT !.selectedState = v] : v \in Selections }

\* the Dispatcher serves the calls the step made
Serves ==
    dispatcher' = DispatchAll(dispatcher, SelectSeq(calls', IsDispatcherCall))

BootDispatcher ==
    \/ /\ \/ InstallUncaughtException
          \/ InstallNonFatalException
          \/ InstallUnhandledRejection
          \/ SubscribeToStore
          \/ RegisterNextErrorHandler
          \/ InstallFocus
          \/ InstallBlur
          \/ InstallUrlAction
          \/ Render
       /\ UNCHANGED << dispatcher, lastSignal >>
    \/ InitialFocusState /\ Serves /\ UNCHANGED lastSignal

SelectRepository(s) == DidUpdate(s) /\ UNCHANGED << dispatcher, lastSignal >>

FocusSignal ==
    /\ ShouldRefresh(appState.selectedState)
           => Initiated(dispatcher, Repos) < MaxRefreshes
    /\ Focus
    /\ Serves
    /\ lastSignal' = "focus"

BlurSignal == Blur /\ Serves /\ lastSignal' = "blur"

UrlActionSignal(action) ==
    UrlAction(action) /\ Serves /\ UNCHANGED lastSignal

\* an asynchronous refresh comes back
RefreshCompletes(refresh) ==
    /\ pc = "running"
    /\ refresh \in dispatcher.inflight
    /\ dispatcher' = completeRefresh(dispatcher, refresh)
    /\ Ran([name |-> "refresh-completed", refresh |-> refresh], << >>)
    /\ UNCHANGED << build, pc, listeners, errorHandlers, storeVars,
                    rejectionVars, reportRuns, lastSignal >>

\* an operation dispatched raises a failure: the chain handles it
OperationFails(shape) ==
    /\ pc = "running"
    /\ Ran([name |-> "operation-failed", error |-> shape,
            outcome |-> RunChain(errorHandlers, shape)], << >>)
    /\ UNCHANGED << build, pc, listeners, errorHandlers, storeVars,
                    rejectionVars, reportRuns, dispatcher, lastSignal >>

NextDispatcher ==
    \/ BootDispatcher
    \/ \E s \in DispatcherStates : SelectRepository(s)
    \/ FocusSignal
    \/ BlurSignal
    \/ \E action \in URLActions : UrlActionSignal(action)
    \/ \E refresh \in dispatcher.inflight : RefreshCompletes(refresh)
    \/ \E shape \in ErrorShapes : OperationFails(shape)

\* a production build, where nothing of the listeners depends on the build
InitDispatcher == Init /\ ~dev /\ ~testEnv /\ ~darwin

SpecDispatcher == InitDispatcher /\ [][NextDispatcher]_vars

TypeOK ==
    /\ dev \in BOOLEAN /\ testEnv \in BOOLEAN /\ darwin \in BOOLEAN
    /\ currentState \in AppStates \cup ContextStates \cup {Null}
    /\ appState \in AppStates \cup ContextStates
    /\ now \in 0 .. MaxTime
    /\ reportRuns \in 0 .. MaxReports

----------------------------------------------------------------------------
(* The report path over every combination of the snapshot's fields *)

\* the listeners the script has installed when it ends
Installed ==
    { "uncaughtException", "send-non-fatal-exception", "unhandledrejection",
      "did-update", "focus", "blur", "url-action" }

\* a production build after its bootstrap: the store has published a
\* snapshot, and a promise may have been rejected, with a reason, before that
InitContext ==
    /\ dev = FALSE /\ testEnv = FALSE
    /\ darwin \in BOOLEAN
    /\ pc = "running"
    /\ listeners = Installed
    /\ errorHandlers = BootHandlers
    /\ appState \in ContextStates
    /\ published = appState
    /\ currentState = DidUpdateListener(appState)
    /\ dispatcher = NewDispatcher
    /\ lastSignal = "none"
    /\ \/ /\ lastUnhandledRejection = Null
          /\ lastUnhandledRejectionTime = Null
          /\ recentRejection = Null
       \/ \E reason \in { r \in Reasons : HasReason(r) /\ ~TemplateThrows(r) } :
            LET r == UnhandledRejectionListener(reason, 0, Null, Null)
            IN  /\ lastUnhandledRejection = r.rejection
                /\ lastUnhandledRejectionTime = r.rejectionTime
                /\ recentRejection = [reason |-> reason, time |-> 0]
    /\ now = 0
    /\ reportRuns = 0
    /\ fatalSignals = 0
    /\ fatalReports = 0
    /\ lastEvent = [name |-> "did-update"]
    /\ calls = << >>

NextContext ==
    /\ \/ \E error \in Errors : UncaughtException(error)
       \/ \E error \in Errors, context \in Contexts :
            NonFatalException(error, context)
    /\ UNCHANGED << dispatcher, lastSignal >>

SpecContext == InitContext /\ [][NextContext]_vars

----------------------------------------------------------------------------
(* Vocabulary of the properties *)

\* a production build: neither __DEV__ nor TEST_ENV
Production == ~dev /\ ~testEnv

\* the latest run was a run of the report path
ReportPathRan ==
    \/ lastEvent.name = "send-non-fatal-exception"
    \/ lastEvent.name = "uncaughtException" /\ lastEvent.listening

\* the calls the latest run made to the reporting sink
SinkCalls == SelectSeq(calls, IsSinkCall)

\* the context of the report the latest run sent
ReportExtra == SinkCalls[1].extra

\* the keys of the context the caller of the latest run supplied
ContextKeys ==
    IF lastEvent.context = Undefined THEN {} ELSE DOMAIN lastEvent.context

BaselineKeys == { "osVersion", "guid" }
RejectionKeys == { "lastUnhandledRejection", "lastUnhandledRejectionTime" }
AlwaysKeys == { "repositoryCount", "windowState", "accounts" }

\* deriving a field of the current snapshot throws
ExtractionThrows ==
    /\ currentState # Null
    /\ ~TryBody(InitialExtra(Undefined), Env).ok

\* a published snapshot with nothing selected, shown or loaded
IsEmptySnapshot(s) ==
    /\ s # Null
    /\ s.selectedState = Null /\ s.currentPopup = Null
    /\ s.currentBanner = Null /\ s.currentFoldout = Null
    /\ s.errors = Array(0) /\ s.repositories = Array(0)
    /\ s.accounts = Array(0)
    /\ s.windowZoomFactor = 1 /\ ~s.showWelcomeFlow

\* the first uncaught exception has been raised
FirstUncaughtSeen == pc = "running" /\ "uncaughtException" \notin listeners

----------------------------------------------------------------------------
(* C1 *)

\* C1: in a production build every run of the report path (the uncaught
\* exception listener or a send-non-fatal-exception event) makes exactly one
\* call to the reporting sink, for the error it was given, also when deriving
\* a field of the current snapshot throws.
C1_ExactlyOneSinkCall ==
    (Production /\ ReportPathRan) =>
        /\ Len(SinkCalls) = 1
        /\ SinkCalls[1].error = withSourceMappedStack(lastEvent.error)

C1_Witness ==
    /\ Production /\ ReportPathRan /\ ExtractionThrows
    /\ Len(SinkCalls) = 1

----------------------------------------------------------------------------
(* C2 *)

----------------------------------------------------------------------------
(* C3 *)

\* C3 as stated: on an empty snapshot a production report carries only the
\* baseline keys (and the caller's).
C3_EmptySnapshotBaselineOnly ==
    (Production /\ ReportPathRan /\ IsEmptySnapshot(currentState)) =>
        /\ Len(SinkCalls) = 1
        /\ DOMAIN ReportExtra = BaselineKeys \cup ContextKeys

\* C3 as amended: on an empty snapshot a production report is sent without
\* an exception and carries the baseline keys, the caller's keys,
\* repositoryCount "0", windowState and accounts "0", automaticallySwitchTheme
\* on macOS, and the last rejection's text and time if one is recorded;
\* nothing else.
C3_EmptySnapshotKeys ==
    (Production /\ ReportPathRan /\ IsEmptySnapshot(currentState)) =>
        /\ Len(SinkCalls) = 1
        /\ DOMAIN ReportExtra =
              BaselineKeys \cup ContextKeys \cup AlwaysKeys
                \cup (IF darwin THEN { "automaticallySwitchTheme" } ELSE {})
                \cup (IF lastUnhandledRejection # Null THEN RejectionKeys
                      ELSE {})
        /\ ReportExtra["repositoryCount"] = "0"
        /\ ReportExtra["accounts"] = "0"
        /\ ReportExtra["windowState"] = currentState.windowState

C3_Witness ==
    /\ Production /\ ReportPathRan /\ IsEmptySnapshot(currentState)
    /\ ~darwin /\ lastUnhandledRejection = Null
    /\ DOMAIN ReportExtra = BaselineKeys \cup AlwaysKeys

----------------------------------------------------------------------------
(* C4 *)

\* C4: in every build mode the fatal signal has been emitted exactly once
\* when the first uncaught exception has been raised and not at all before;
\* a later uncaught exception emits nothing; at most one report that is not
\* marked non-fatal is ever sent.
C4_FatalSignalOnce ==
    /\ fatalSignals = (IF FirstUncaughtSeen THEN 1 ELSE 0)
    /\ fatalReports <= 1
    /\ lastEvent.name = "uncaughtException" =>
          FatalSignalCount(calls) = (IF lastEvent.listening THEN 1 ELSE 0)

C4_Witness ==
    /\ lastEvent.name = "uncaughtException" /\ ~lastEvent.listening
    /\ dev
    /\ fatalSignals = 1
    /\ calls = << >>

----------------------------------------------------------------------------
(* C5 *)

\* C5 as stated: an uncaught exception results in exactly one sink call, not
\* marked non-fatal, with a non-empty context.
C5_UncaughtAlwaysReported ==
    lastEvent.name = "uncaughtException" =>
        /\ Len(SinkCalls) = 1
        /\ SinkCalls[1].nonFatal # "true"
        /\ DOMAIN ReportExtra # {}

\* C5 as amended: in a production build the first uncaught exception of the
\* process (the one the once-only listener receives) results in exactly one
\* sink call, with the nonFatal argument omitted and a context that holds at
\* least osVersion and guid.
C5_FirstUncaughtReported ==
    (Production /\ lastEvent.name = "uncaughtException"
       /\ lastEvent.listening) =>
        /\ Len(SinkCalls) = 1
        /\ SinkCalls[1].nonFatal = "undefined"
        /\ BaselineKeys \subseteq DOMAIN ReportExtra

C5_Witness ==
    /\ Production /\ lastEvent.name = "uncaughtException"
    /\ lastEvent.listening
    /\ currentState # Null
    /\ Len(SinkCalls) = 1 /\ IsFatalReport(SinkCalls[1])

----------------------------------------------------------------------------
(* C6 *)

\* C6 as stated: every send-non-fatal-exception event is reported to the sink
\* with isNonFatal = true and emits no fatal signal.
C6_NonFatalAlwaysReported ==
    lastEvent.name = "send-non-fatal-exception" =>
        /\ Len(SinkCalls) = 1
        /\ SinkCalls[1].nonFatal = "true"
        /\ FatalSignalCount(calls) = 0

\* a send-non-fatal-exception event is served
C6_NonFatalStep ==
    /\ lastEvent'.name = "send-non-fatal-exception"
    /\ reportRuns' # reportRuns

\* C6 as amended: a send-non-fatal-exception event, the first or a later one,
\* emits no fatal signal, leaves the once-only uncaught-exception listener as
\* it was and sends no report that is not marked non-fatal, in every build
\* mode; in a production build it is reported to the sink exactly once, with
\* isNonFatal = true.
C6_NonFatalBypassesEscalation ==
    [][C6_NonFatalStep =>
          /\ UNCHANGED << fatalSignals, fatalReports, listeners >>
          /\ FatalSignalCount(calls') = 0
          /\ Production =>
                /\ SinkCallCount(calls') = 1
                /\ \A i \in DOMAIN calls' :
                      IsSinkCall(calls'[i]) => calls'[i].nonFatal = "true"
      ]_vars

C6_Witness ==
    /\ Production /\ lastEvent.name = "send-non-fatal-exception"
    /\ reportRuns = 2
    /\ "uncaughtException" \in listeners
    /\ fatalSignals = 0
    /\ Len(SinkCalls) = 1

----------------------------------------------------------------------------
(* C7 *)

\* C7: serving an unhandledrejection event makes no call to the reporting
\* sink, emits no fatal signal and changes nothing but the last-rejection
\* record (and the clock).
C7_RejectionOnlyRecorded ==
    [][lastEvent'.name = "unhandledrejection" =>
          /\ calls' = << >>
          /\ UNCHANGED << build, pc, listeners, errorHandlers, storeVars,
                          reportVars >>
      ]_vars

C7_Witness ==
    /\ lastEvent.name = "unhandledrejection"
    /\ lastUnhandledRejection = [text |-> "Error: boom"]
    /\ lastUnhandledRejectionTime = [time |-> now]
    /\ reportRuns > 0

----------------------------------------------------------------------------
(* C8 *)

\* C8: a production report carries the text and the timestamp of the most
\* recent unhandled rejection if one occurred, and neither key if none did.
\* A latest rejection that has no reason, or whose reason has no text, is
\* left open here.
C8_ReportCarriesLatestRejection ==
    (Production /\ ReportPathRan /\ Len(SinkCalls) = 1) =>
        IF recentRejection = Null
        THEN RejectionKeys \cap DOMAIN ReportExtra = {}
        ELSE (HasReason(recentRejection.reason)
                /\ ~TemplateThrows(recentRejection.reason)) =>
                /\ RejectionKeys \subseteq DOMAIN ReportExtra
                /\ ReportExtra["lastUnhandledRejection"] =
                      Template(recentRejection.reason)
                /\ ReportExtra["lastUnhandledRejectionTime"] =
                      DateStr(recentRejection.time)

----------------------------------------------------------------------------
(* C9 *)

\* C9: in a development or test build no run makes a call to the reporting
\* sink; a run of the report path only logs, twice, to the console.
C9_NoReportInDevOrTest ==
    (dev \/ testEnv) =>
        /\ Len(SinkCalls) = 0
        /\ fatalReports = 0
        /\ ReportPathRan => ConsoleCallCount(calls) = 2

C9_Witness ==
    /\ testEnv /\ ~dev
    /\ lastEvent.name = "send-non-fatal-exception"
    /\ reportRuns = 2
    /\ "uncaughtException" \notin listeners
    /\ Len(SinkCalls) = 0

----------------------------------------------------------------------------
(* C10 *)

\* C10 as stated: serving a focus, blur or url-action signal issues exactly
\* one Dispatcher call.
C10_OneDispatcherCallPerSignal ==
    lastEvent.name \in { "focus", "blur", "url-action" } =>
        DispatcherCallCount(calls) = 1

\* C10 as amended: a url-action signal issues exactly one Dispatcher call,
\* dispatchURLAction with the payload's action; a blur signal issues exactly
\* two, setAccessKeyHighlightState(false) then setAppFocusState(false); a
\* focus signal issues setAppFocusState(true), preceded by one
\* refreshRepository call when the store's selection is present and not a
\* cloning repository. No signal issues any other call.
C10_DispatcherCallsPerSignal ==
    /\ lastEvent.name = "url-action" =>
          /\ Len(calls) = 1
          /\ calls[1].op = "dispatchURLAction"
          /\ calls[1].action = lastEvent.action
    /\ lastEvent.name = "blur" =>
          /\ Len(calls) = 2
          /\ calls[1].op = "setAccessKeyHighlightState"
          /\ ~calls[1].isHighlighted
          /\ calls[2].op = "setAppFocusState"
          /\ ~calls[2].isFocused
    /\ lastEvent.name = "focus" =>
          /\ Len(calls) =
                (IF \/ appState.selectedState \in { Null, Undefined }
                    \/ appState.selectedState.type = CloningRepository
                 THEN 1 ELSE 2)
          /\ calls[Len(calls)].op = "setAppFocusState"
          /\ calls[Len(calls)].isFocused
          /\ Len(calls) = 2 => calls[1].op = "refreshRepository"

C10_Witness ==
    /\ lastEvent.name = "blur"
    /\ DispatcherCallCount(calls) = 2
    /\ appState.selectedState # Null

----------------------------------------------------------------------------
(* C11 *)

\* the specialized handlers of the chain that recognize a failure's shape
SpecializedFor(shape) ==
    { h \in { errorHandlers[i] : i \in 1 .. Len(errorHandlers) }
            \ { "defaultErrorHandler" } : Recognizes(h, shape) }

----------------------------------------------------------------------------
(* C12 *)

\* C12: once every refresh initiated for a repository has completed, in
\* whatever order, the repository's state is the result of the refresh that
\* was initiated last.
C12_LastInitiatedWins ==
    \A r \in Repos :
        ( /\ dispatcher.generation[r] > 0
          /\ \A f \in dispatcher.inflight : f.repository # r )
            => dispatcher.repositoryState[r] = dispatcher.generation[r]

\* two focus signals refreshed the same repository and the refresh initiated
\* first was the last to complete
C12_Witness ==
    /\ lastEvent.name = "refresh-completed"
    /\ lastEvent.refresh.generation = 1
    /\ dispatcher.generation[lastEvent.refresh.repository] = 2
    /\ dispatcher.inflight = {}
    /\ dispatcher.repositoryState[lastEvent.refresh.repository] = 2

----------------------------------------------------------------------------
(* C13 *)

\* the fields of a snapshot in the order the report reads them
ReadOrder ==
    << "currentBanner", "currentPopup", "selectedState", "currentFoldout",
       "showWelcomeFlow", "windowZoomFactor", "errors", "repositories",
       "windowState", "accounts", "automaticallySwitchTheme" >>

\* the fields of s that cannot be read: undefined where the report
\* dereferences the value
Unreadable(s) ==
    { f \in { "currentBanner", "currentPopup", "selectedState",
              "currentFoldout", "errors", "repositories", "accounts" } :
        s[f] = Undefined }

\* the position of the first field whose reading throws, past the end if
\* every field can be read
FirstThrow(s) ==
    IF Unreadable(s) = {} THEN Len(ReadOrder) + 1
    ELSE CHOOSE i \in 1 .. Len(ReadOrder) :
             /\ ReadOrder[i] \in Unreadable(s)
             /\ \A j \in 1 .. i - 1 : ReadOrder[j] \notin Unreadable(s)

\* the keys a report derives from the field f of s, when f can be read
FieldKeys(s, f, isDarwin) ==
    CASE f = "currentBanner" ->
             IF s.currentBanner = Null THEN {} ELSE { "currentBanner" }
      [] f = "currentPopup" ->
             IF s.currentPopup = Null THEN {} ELSE { "currentPopup" }
      [] f = "selectedState" ->
             IF s.selectedState = Null THEN {}
             ELSE IF s.selectedState.type = Repository
                  THEN { "selectedState", "selectedRepositorySection" }
                  ELSE { "selectedState" }
      [] f = "currentFoldout" ->
             IF s.currentFoldout = Null THEN {} ELSE { "currentFoldout" }
      [] f = "showWelcomeFlow" ->
             IF s.showWelcomeFlow THEN { "inWelcomeFlow" } ELSE {}
      [] f = "windowZoomFactor" ->
             IF s.windowZoomFactor = 1 THEN {} ELSE { "windowZoomFactor" }
      [] f = "errors" ->
             IF s.errors.length = 0 THEN {} ELSE { "activeAppErrors" }
      [] f = "repositories" -> { "repositoryCount" }
      [] f = "windowState" -> { "windowState" }
      [] f = "accounts" -> { "accounts" }
      [] f = "automaticallySwitchTheme" ->
             IF isDarwin THEN { "automaticallySwitchTheme" } ELSE {}

\* the latest run was a production run of the report path over a snapshot
ReportedSnapshot == Production /\ ReportPathRan /\ currentState # Null

\* C13 as stated: when deriving one field throws, every other field that can
\* be derived, the later ones among them (repositoryCount, windowState,
\* accounts), is still in the report.
C13_EveryOtherFieldKept ==
    ReportedSnapshot =>
        /\ Len(SinkCalls) = 1
        /\ \A f \in Fields \ Unreadable(currentState) :
               FieldKeys(currentState, f, darwin) \subseteq DOMAIN ReportExtra

\* C13 as amended: a failure while deriving one field never prevents the
\* report, but it ends the extraction: the report has the keys of every
\* field read before the failing one, and the key of no field from the
\* failing one on (unless the caller supplied that key).
C13_FieldsBeforeThrowKept ==
    ReportedSnapshot =>
        /\ Len(SinkCalls) = 1
        /\ \A i \in 1 .. Len(ReadOrder) :
               IF i < FirstThrow(currentState)
               THEN FieldKeys(currentState, ReadOrder[i], darwin)
                        \subseteq DOMAIN ReportExtra
               ELSE ReadOrder[i] \notin Unreadable(currentState) =>
                        FieldKeys(currentState, ReadOrder[i], darwin)
                            \cap (DOMAIN ReportExtra \ ContextKeys) = {}

\* the banner was read, the error list could not be, and the report went out
\* with the banner and without the repository count
C13_Witness ==
    /\ ReportedSnapshot
    /\ currentState.currentBanner \notin { Null, Undefined }
    /\ currentState.errors = Undefined
    /\ currentState.repositories # Undefined
    /\ Len(SinkCalls) = 1
    /\ "currentBanner" \in DOMAIN ReportExtra
    /\ "repositoryCount" \notin DOMAIN ReportExtra

----------------------------------------------------------------------------
(* C14 *)

\* C14: currentState is always the snapshot passed to the latest onDidUpdate
\* notification, null before the first, and a run of the report path leaves
\* currentState and the record of the last rejection as they were.
C14_SingleWriter ==
    /\ [](currentState = published)
    /\ [][reportRuns' # reportRuns =>
            UNCHANGED << currentState, lastUnhandledRejection,
                         lastUnhandledRejectionTime >>]_vars

\* a report was built over a published snapshot with a rejection on record
C14_Witness ==
    /\ ReportPathRan
    /\ reportRuns > 0
    /\ published # Null
    /\ published # DefaultAppState
    /\ currentState = published
    /\ lastUnhandledRejection # Null

----------------------------------------------------------------------------
(* C15 *)

\* the Dispatcher has been given a command, or a lifecycle signal can reach it
DispatcherReachable ==
    \/ DispatcherCallCount(calls) > 0
    \/ dispatcher # NewDispatcher
    \/ listeners \cap { "focus", "blur", "url-action" } # {}

\* C15: the thirteen handlers are registered once each at startup,
\* defaultErrorHandler first, all of them before the first Dispatcher command
\* and before a focus, blur or url-action signal can reach the Dispatcher, and
\* the chain never changes afterwards.
C15_HandlersRegisteredOnceAtStartup ==
    /\ [](/\ \A i, j \in 1 .. Len(errorHandlers) :
                errorHandlers[i] = errorHandlers[j] => i = j
          /\ Len(errorHandlers) > 0 =>
                errorHandlers[1] = "defaultErrorHandler"
          /\ DispatcherReachable =>
                /\ Len(errorHandlers) = 13
                /\ errorHandlers = BootHandlers)
    /\ [][DispatcherReachable => UNCHANGED errorHandlers]_vars

\* the first Dispatcher command has just been issued, after the thirteenth
\* registration
C15_Witness ==
    /\ pc = "L287"
    /\ Len(calls) = 1
    /\ calls[1].op = "setAppFocusState"
    /\ dispatcher.appFocusState # "unset"
    /\ Len(errorHandlers) = 13

----------------------------------------------------------------------------
(* C16 *)

\* C16: the focus state the Dispatcher holds is the one of the latest
\* signal, true after a focus and false after a blur, and before the first
\* signal the value line 285 read from the window; every signal applies it,
\* as the last call of its listener, and a blur clears the access-key
\* highlight first.
C16_FocusStateFollowsSignals ==
    /\ lastSignal = "focus" => dispatcher.appFocusState = "true"
    /\ lastSignal = "blur" =>
          /\ dispatcher.appFocusState = "false"
          /\ dispatcher.accessKeyHighlightState = "false"
    /\ lastSignal = "none" =>
          /\ dispatcher.appFocusState = "unset" <=>
                pc \in { "L178", "L184", "L205", "L258", "L269", "L285" }
          /\ pc = "L287" =>
                dispatcher.appFocusState = BoolStr(calls[1].isFocused)
    /\ lastEvent.name = "focus" =>
          /\ Len(calls) > 0
          /\ calls[Len(calls)] = DispatcherCall("setAppFocusState", TRUE)
    /\ lastEvent.name = "blur" =>
          calls = << DispatcherCall("setAccessKeyHighlightState", FALSE),
                     DispatcherCall("setAppFocusState", FALSE) >>

\* the window started focused, lost the focus, and the store has published
\* since
C16_Witness ==
    /\ lastSignal = "blur"
    /\ lastEvent.name = "did-update"
    /\ dispatcher.appFocusState = "false"
    /\ dispatcher.accessKeyHighlightState = "false"
    /\ Initiated(dispatcher, Repos) > 0

----------------------------------------------------------------------------
(* C17 *)

\* the store's selection is present and is not a cloning repository
RefreshableSelection ==
    /\ appState.selectedState \notin { Null, Undefined }
    /\ appState.selectedState.type # CloningRepository

\* C17: a focus signal initiates a refresh if and only if the store's
\* selection is present and not a cloning repository; the refresh is of the
\* selected repository and comes before setAppFocusState(true); with no such
\* selection the signal changes the focus state and nothing else.
C17_FocusRefreshesSelection ==
    /\ [](lastEvent.name = "focus" =>
            calls = (IF RefreshableSelection
                     THEN << DispatcherCall("refreshRepository",
                                 appState.selectedState.repository) >>
                     ELSE << >>)
                      \o << DispatcherCall("setAppFocusState", TRUE) >>)
    /\ [][lastEvent'.name = "focus" =>
            dispatcher' =
                IF RefreshableSelection
                THEN LET r == appState.selectedState.repository
                         g == dispatcher.generation[r] + 1
                     IN  [dispatcher EXCEPT
                            !.appFocusState = "true",
                            !.generation[r] = g,
                            !.inflight = @ \cup { [repository |-> r,
                                                   generation |-> g] }]
                ELSE [dispatcher EXCEPT !.appFocusState = "true"]]_vars

\* the window was focused while a repository missing on disk was selected:
\* a refresh of that repository was initiated
C17_Witness ==
    /\ lastEvent.name = "focus"
    /\ RefreshableSelection
    /\ appState.selectedState.type = MissingRepository
    /\ Len(calls) = 2
    /\ \E f \in dispatcher.inflight :
           f.repository = appState.selectedState.repository

----------------------------------------------------------------------------
(* C18 *)

\* the keys of the latest report that come from the snapshot: not the
\* baseline's, the caller's or the rejection record's
SnapshotDerivedKeys ==
    DOMAIN ReportExtra \ (BaselineKeys \cup ContextKeys \cup RejectionKeys)

\* the latest run reported over a snapshot and its caller supplied no key
\* that a field of the snapshot derives
ReportedSnapshotOnly == ReportedSnapshot /\ "repositoryCount" \notin ContextKeys

\* the keys C18 lists for the snapshot s
StatedKeys(s) ==
    AlwaysKeys
      \cup (IF s.currentBanner # Null THEN { "currentBanner" } ELSE {})
      \cup (IF s.currentPopup # Null THEN { "currentPopup" } ELSE {})
      \cup (IF s.currentFoldout # Null THEN { "currentFoldout" } ELSE {})
      \cup (IF s.selectedState # Null THEN { "selectedState" } ELSE {})
      \cup (IF /\ s.selectedState \notin { Null, Undefined }
               /\ s.selectedState.type = Repository
            THEN { "selectedRepositorySection" } ELSE {})
      \cup (IF s.showWelcomeFlow THEN { "inWelcomeFlow" } ELSE {})
      \cup (IF s.windowZoomFactor # 1 THEN { "windowZoomFactor" } ELSE {})
      \cup (IF s.errors # Undefined /\ s.errors.length >= 1
            THEN { "activeAppErrors" } ELSE {})

\* C18 as stated, over the snapshots whose fields can all be read: the
\* snapshot-derived keys of a production report are exactly repositoryCount,
\* windowState and accounts, together with the key of each optional field
\* that is set.
C18_SnapshotKeysAsListed ==
    (ReportedSnapshotOnly /\ Unreadable(currentState) = {}) =>
        /\ Len(SinkCalls) = 1
        /\ SnapshotDerivedKeys = StatedKeys(currentState)

\* C18 as amended: the snapshot-derived keys are exactly those of the fields
\* read before the first one whose reading fails, all the fields for a
\* well-formed snapshot: the listed keys, and automaticallySwitchTheme on a
\* macOS build.
C18_SnapshotKeysInReadOrder ==
    ReportedSnapshotOnly =>
        /\ Len(SinkCalls) = 1
        /\ SnapshotDerivedKeys =
              UNION { FieldKeys(currentState, ReadOrder[i], darwin) :
                        i \in 1 .. FirstThrow(currentState) - 1 }
        /\ FirstThrow(currentState) > Len(ReadOrder) =>
              SnapshotDerivedKeys =
                  StatedKeys(currentState)
                    \cup (IF darwin THEN { "automaticallySwitchTheme" }
                          ELSE {})

\* a macOS report over a well-formed snapshot with a repository selected
C18_Witness ==
    /\ ReportedSnapshotOnly
    /\ darwin
    /\ Unreadable(currentState) = {}
    /\ Len(SinkCalls) = 1
    /\ { "automaticallySwitchTheme", "selectedRepositorySection",
         "repositoryCount" } \subseteq SnapshotDerivedKeys

----------------------------------------------------------------------------
(* C19 *)

\* C19: on the first uncaught exception the report attempt comes strictly
\* before the fatal signal: the run begins with the report path, its call to
\* the sink, when it makes one, precedes reportUncaughtException, and the
\* fatal signal is the run's last call, made once the report path returned.
C19_ReportPrecedesFatalSignal ==
    (lastEvent.name = "uncaughtException" /\ lastEvent.listening) =>
        /\ Len(calls) >= 2
        /\ IsConsoleCall(calls[1])
        /\ IsFatalSignal(calls[Len(calls)])
        /\ \A i \in 1 .. Len(calls) - 1 : ~IsFatalSignal(calls[i])
        /\ Production => IsSinkCall(calls[Len(calls) - 1])

\* a production build reported its first uncaught exception and then
\* signalled it
C19_Witness ==
    /\ Production
    /\ lastEvent.name = "uncaughtException" /\ lastEvent.listening
    /\ Len(SinkCalls) = 1
    /\ fatalSignals = 1
    /\ currentState # Null

----------------------------------------------------------------------------
(* C20 *)

\* the position of the field f in the order the report reads the snapshot
Position(f) == CHOOSE i \in 1 .. Len(ReadOrder) : ReadOrder[i] = f

\* the value the baseline gives the key k
Baseline(k) == IF k = "osVersion" THEN OsVersion ELSE Guid

\* C20 as stated: a key of the caller named osVersion or guid replaces the
\* baseline's value, and a key of the caller that collides with a
\* snapshot-derived key, repositoryCount, is overwritten by the value derived
\* from the snapshot whenever the snapshot is non-null.
C20_SnapshotOverCallerOverBaseline ==
    (Production /\ ReportPathRan) =>
        /\ Len(SinkCalls) = 1
        /\ \A k \in ContextKeys \cap BaselineKeys :
               ReportExtra[k] = lastEvent.context[k]
        /\ ( /\ "repositoryCount" \in ContextKeys
             /\ currentState # Null
             /\ currentState.repositories # Undefined )
              => ReportExtra["repositoryCount"] =
                     NumStr(currentState.repositories.length)

\* C20 as amended: a key of the caller named osVersion or guid replaces the
\* baseline's value, and the caller's other keys are kept, except that
\* repositoryCount is overwritten by the snapshot's value when the snapshot is
\* non-null and every field up to repositories can be read; when an earlier
\* field fails, or the snapshot is null, the caller's value stays.
C20_SnapshotOverCallerUnlessThrown ==
    (Production /\ ReportPathRan) =>
        /\ Len(SinkCalls) = 1
        /\ \A k \in BaselineKeys :
               ReportExtra[k] = IF k \in ContextKeys THEN lastEvent.context[k]
                                ELSE Baseline(k)
        /\ \A k \in ContextKeys \ { "repositoryCount" } :
               ReportExtra[k] = lastEvent.context[k]
        /\ "repositoryCount" \in ContextKeys =>
              ReportExtra["repositoryCount"] =
                  IF /\ currentState # Null
                     /\ FirstThrow(currentState) > Position("repositories")
                  THEN NumStr(currentState.repositories.length)
                  ELSE lastEvent.context["repositoryCount"]

\* the caller supplied repositoryCount and the report carries the count of
\* the snapshot's repositories instead
C20_Witness ==
    /\ Production /\ ReportPathRan
    /\ "repositoryCount" \in ContextKeys
    /\ currentState # Null
    /\ Unreadable(currentState) = {}
    /\ currentState.repositories.length > 0
    /\ Len(SinkCalls) = 1
    /\ ReportExtra["repositoryCount"] # lastEvent.context["repositoryCount"]

============================================================================
